---- MODULE Spec2Model ----
(***************************************************************************)
(* sh-stat: comparison of a baseline and an experiment series of labelled, *)
(* time-stamped measurements (src/main.go).                                *)
(*                                                                         *)
(* float64 values are held exactly: a finite value is a rational or the    *)
(* signed square root of a rational, next to the IEEE-754 specials NaN,    *)
(* +Inf and -Inf.  A time.Time is the number of minutes since the Unix     *)
(* epoch (UTC); the timestamps of the model fall on whole minutes.         *)
(***************************************************************************)
EXTENDS Integers, Sequences, FiniteSets, TLC

\* ------------------------------------------------------------------------
\* Bounds of the model
\* ------------------------------------------------------------------------

\* longest series handed to the statistics functions
MaxLen == 3

\* longest series handed to analyzeTimeSeries
MaxSeriesLen == 2

\* most records of the input table
MaxRecords == 3

\* ------------------------------------------------------------------------
\* Input domains
\* ------------------------------------------------------------------------

\* measured values
Values == {0, 10, 11}

\* 2026-01-01 00:00:00 UTC, a Thursday, in minutes since the Unix epoch
BaseDate == 20454 * 1440

\* timestamps: Thursday 00:00, Thursday 01:00, Friday 00:00
Dates == {BaseDate, BaseDate + 60, BaseDate + 1440}

\* the timestamps and values of the series handed to analyzeTimeSeries:
\* Thursday 00:00 and Friday 01:00
SeriesDates == {BaseDate, BaseDate + 1440 + 60}

SeriesValues == {10, 11}

\* the values of the series whose analysis is printed
ReportValues == {0, 10}

\* time.Now() when filterByLabel runs: Thursday 00:30, ahead of which two of the
\* timestamps lie, and a day in February, behind which all of them lie
Nows == {BaseDate + 30, BaseDate + 60000}

\* record labels
Labels == {"a", "b", "A"}

\* the records of the tables main reads: label "a" on Thursday 00:00, a day
\* later and a week later, the labels "b" and "c" on Thursday 00:00
MainRecords ==
    {[Date |-> BaseDate, Value |-> 10, Label |-> "a"],
     [Date |-> BaseDate + 1440, Value |-> 10, Label |-> "a"],
     [Date |-> BaseDate + 7 * 1440, Value |-> 11, Label |-> "a"],
     [Date |-> BaseDate, Value |-> 10, Label |-> "b"],
     [Date |-> BaseDate, Value |-> 10, Label |-> "c"]}

\* time.Now() when main runs: a day before the first timestamp of the table,
\* and a day in February, after the last
MainNows == {BaseDate - 1440, BaseDate + 60000}

\* --baseline and --experiment: left out, a label of the table, a label that
\* no table holds
BaselineArgs == {"", "a", "z"}

ExperimentArgs == {"", "b", "z"}

\* opts.Confidence, in percent
Confidences == {90, 95, 99}

\* What the linked gonum does with a Student's t distribution whose degrees of
\* freedom are outside its domain (Nu <= 0 or NaN): it panics or answers NaN.
\* Its source is not part of the repository, so both are kept.
LibOutcomes == {"panic", "nan"}

VARIABLES
    pc,          \* the call that has been made: "start" before it
    lib,         \* the library's answer outside its domain, one of LibOutcomes
    now,         \* what time.Now() returns
    conf,        \* confidenceLevel, a float64
    data,        \* the records of the input table, a sequence of Measurement
    label,       \* the label filterByLabel is asked for
    benchmark,   \* the benchmark (baseline) TimeSeries
    experiment,  \* the experiment TimeSeries
    ret,         \* the value the call returned, or Panic
    calls,       \* the degrees of freedom dist.Quantile was evaluated with
    argv,        \* the options of the command line, as parser.Parse read them
    opts,        \* the Options struct of main
    labels,      \* the slice getUniqueLabels returned to main
    show,        \* showHourly, showDaily and useColor, as printResults got them
    stdout,      \* the lines written to standard output
    fatal        \* the message of log.Fatalf, once it has ended the run

\* the variables of main and of the report
mainVars == <<argv, opts, labels, show, stdout, fatal>>

vars == <<pc, lib, now, conf, data, label, benchmark, experiment, ret, calls,
          argv, opts, labels, show, stdout, fatal>>

\* ------------------------------------------------------------------------
\* Exact arithmetic behind float64
\* ------------------------------------------------------------------------

Abs(i) == IF i < 0 THEN -i ELSE i

Sgn(i) == IF i < 0 THEN -1 ELSE IF i = 0 THEN 0 ELSE 1

RECURSIVE GCD(_, _)
GCD(a, b) == IF b = 0 THEN a ELSE GCD(b, a % b)

\* the rational n/d in lowest terms, d > 0
Rat(n, d) ==
    [k |-> "rat", n |-> Sgn(d) * (n \div GCD(Abs(n), Abs(d))),
                  d |-> Abs(d) \div GCD(Abs(n), Abs(d))]

NaN == [k |-> "nan"]

Inf(s) == [k |-> "inf", s |-> s]

\* s * sqrt(q) for a rational q > 0 and a sign s; the root of 0 is the rational 0
Root(s, q) == IF q.n = 0 \/ s = 0 THEN Rat(0, 1) ELSE [k |-> "root", s |-> s, q |-> q]

\* c + s * sqrt(q): the sum of a rational and a root
Mix(c, s, q) ==
    IF q.n = 0 \/ s = 0 THEN c
    ELSE IF c.n = 0 THEN Root(s, q)
    ELSE [k |-> "mix", c |-> c, s |-> s, q |-> q]

IsNaN(a) == a.k = "nan"

IsFinite(a) == a.k \in {"rat", "root", "mix"}

RAdd(a, b) == Rat(a.n * b.d + b.n * a.d, a.d * b.d)

RNeg(a) == Rat(-a.n, a.d)

\* a * b, the common factors taken out before the products are formed
RMul(a, b) ==
    Rat((a.n \div GCD(Abs(a.n), b.d)) * (b.n \div GCD(Abs(b.n), a.d)),
        (a.d \div GCD(Abs(b.n), a.d)) * (b.d \div GCD(Abs(a.n), b.d)))

\* 1/a for a rational a # 0
RInv(a) == Rat(a.d, a.n)

RLt(a, b) == a.n * b.d < b.n * a.d

\* sign of a float
FSign(a) ==
    CASE a.k = "rat" -> Sgn(a.n)
      [] a.k = "root" -> a.s
      [] a.k = "inf" -> a.s
      [] OTHER -> 0

\* the square of a rational or of a root, a rational
FSquare(a) == IF a.k = "rat" THEN RMul(a, a) ELSE a.q

\* IEEE-754 addition of rationals and specials
FAdd(a, b) ==
    CASE IsNaN(a) \/ IsNaN(b) -> NaN
      [] a.k = "inf" /\ b.k = "inf" -> IF a.s = b.s THEN a ELSE NaN
      [] a.k = "inf" -> a
      [] b.k = "inf" -> b
      [] a.k = "rat" /\ b.k = "rat" -> RAdd(a, b)
      [] a.k = "rat" /\ b.k = "root" -> Mix(a, b.s, b.q)
      [] a.k = "root" /\ b.k = "rat" -> Mix(b, a.s, a.q)
      [] OTHER -> NaN

FNeg(a) ==
    CASE a.k = "rat" -> RNeg(a)
      [] a.k = "root" -> [a EXCEPT !.s = -a.s]
      [] a.k = "inf" -> Inf(-a.s)
      [] a.k = "mix" -> [a EXCEPT !.c = RNeg(a.c), !.s = -a.s]
      [] OTHER -> NaN

FSub(a, b) == FAdd(a, FNeg(b))

\* IEEE-754 multiplication: 0 * Inf is NaN
FMul(a, b) ==
    CASE IsNaN(a) \/ IsNaN(b) -> NaN
      [] a.k = "inf" \/ b.k = "inf" ->
            IF FSign(a) * FSign(b) = 0 THEN NaN ELSE Inf(FSign(a) * FSign(b))
      [] a.k = "rat" /\ b.k = "rat" -> RMul(a, b)
      [] a.k \in {"rat", "root"} /\ b.k \in {"rat", "root"} ->
            Root(FSign(a) * FSign(b), RMul(FSquare(a), FSquare(b)))
      [] OTHER -> NaN

\* IEEE-754 division: x/0 is +-Inf, 0/0 and Inf/Inf are NaN
FDiv(a, b) ==
    CASE IsNaN(a) \/ IsNaN(b) -> NaN
      [] a.k = "inf" /\ b.k = "inf" -> NaN
      [] a.k = "inf" -> Inf(a.s * (IF FSign(b) < 0 THEN -1 ELSE 1))
      [] b.k = "inf" -> Rat(0, 1)
      [] FSign(b) = 0 -> IF FSign(a) = 0 THEN NaN ELSE Inf(FSign(a))
      [] a.k = "rat" /\ b.k = "rat" -> RMul(a, RInv(b))
      [] a.k \in {"rat", "root"} /\ b.k \in {"rat", "root"} ->
            Root(FSign(a) * FSign(b), RMul(FSquare(a), RInv(FSquare(b))))
      [] OTHER -> NaN

\* math.Sqrt
FSqrt(a) ==
    CASE IsNaN(a) -> NaN
      [] a.k = "inf" -> IF a.s > 0 THEN a ELSE NaN
      [] a.k = "rat" -> IF a.n < 0 THEN NaN ELSE Root(1, a)
      [] OTHER -> NaN

\* math.Abs
FAbs(a) ==
    CASE a.k = "rat" -> Rat(Abs(a.n), a.d)
      [] a.k = "root" -> [a EXCEPT !.s = 1]
      [] a.k = "inf" -> Inf(1)
      [] OTHER -> NaN

\* a < b for two values that are each a rational or a root
RootLt(a, b) ==
    \/ FSign(a) < FSign(b)
    \/ FSign(a) = 1 /\ FSign(b) = 1 /\ RLt(FSquare(a), FSquare(b))
    \/ FSign(a) = -1 /\ FSign(b) = -1 /\ RLt(FSquare(b), FSquare(a))

\* the rational part c and the root part s*sqrt(q) of c + s*sqrt(q)
Centre(a) == IF a.k = "rat" THEN a ELSE a.c

Offset(a) == IF a.k = "rat" THEN Rat(0, 1) ELSE Root(a.s, a.q)

\* a < b on float64: false as soon as one side is NaN
FLt(a, b) ==
    CASE IsNaN(a) \/ IsNaN(b) -> FALSE
      [] a.k = "inf" /\ b.k = "inf" -> a.s < b.s
      [] a.k = "inf" -> a.s < 0
      [] b.k = "inf" -> b.s > 0
      [] a.k = "rat" /\ b.k = "rat" -> RLt(a, b)
      [] a.k \in {"rat", "root"} /\ b.k \in {"rat", "root"} -> RootLt(a, b)
      \* c + s1*sqrt(q1) against c + s2*sqrt(q2), the same centre c
      [] a.k \in {"rat", "mix"} /\ b.k \in {"rat", "mix"} ->
            Centre(a) = Centre(b) /\ RootLt(Offset(a), Offset(b))
      [] OTHER -> FALSE

FLe(a, b) == ~IsNaN(a) /\ ~IsNaN(b) /\ (a = b \/ FLt(a, b))

FromInt(i) == Rat(i, 1)

\* ------------------------------------------------------------------------
\* gonum: stat.Mean, stat.Variance, stat.StdDev, distuv.StudentsT
\* ------------------------------------------------------------------------

\* a run-time panic, in place of a returned value
Panic == [k |-> "panic"]

RECURSIVE Sum(_)
Sum(x) == IF x = <<>> THEN 0 ELSE Head(x) + Sum(Tail(x))

RECURSIVE SumSq(_)
SumSq(x) == IF x = <<>> THEN 0 ELSE Head(x) * Head(x) + SumSq(Tail(x))

\* stat.Mean(x, nil): floats.Sum(x) / float64(len(x)), NaN for the empty sample
Mean(x) == FDiv(FromInt(Sum(x)), FromInt(Len(x)))

\* stat.Variance(x, nil): the sum of squared deviations over n - 1; 0/0 = NaN
\* for one value, NaN for none
Variance(x) ==
    IF Len(x) = 0 THEN NaN
    ELSE FDiv(Rat(Len(x) * SumSq(x) - Sum(x) * Sum(x), Len(x)), FromInt(Len(x) - 1))

\* stat.StdDev(x, nil)
StdDev(x) == FSqrt(Variance(x))

\* distuv.StudentsT{Nu: nu}: the fields the literal leaves out, Mu and Sigma,
\* hold Go's zero value
StudentsT(nu) == [Mu |-> Rat(0, 1), Sigma |-> Rat(0, 1), Nu |-> nu]

\* degrees of freedom inside the distribution's domain
ValidNu(nu) == nu.k = "rat" /\ nu.n > 0

OutOfDomain == IF lib = "panic" THEN Panic ELSE NaN

\* two-sided critical values of the standard Student's t distribution, times
\* 1000, by degrees of freedom: the quantile at 0.95, 0.975 and 0.995
TCritical(df) ==
    CASE df = 1 -> <<6314, 12706, 63657>>
      [] df = 2 -> <<2920, 4303, 9925>>
      [] df = 3 -> <<2353, 3182, 5841>>
      [] df = 4 -> <<2132, 2776, 4604>>
      [] df = 5 -> <<2015, 2571, 4032>>
      [] OTHER -> <<1943, 2447, 3707>>

\* the quantile of the standard (Mu = 0, Sigma = 1) distribution, p > 1/2
StdQuantile(nu, p) ==
    CASE p = Rat(19, 20) -> Rat(TCritical(nu.n)[1], 1000)
      [] p = Rat(39, 40) -> Rat(TCritical(nu.n)[2], 1000)
      [] OTHER -> Rat(TCritical(nu.n)[3], 1000)

\* dist.Quantile(p): the standard quantile y, brought to the distribution's
\* location and scale as y*Sigma + Mu
Quantile(dist, p) ==
    IF FLt(p, Rat(0, 1)) \/ FLt(Rat(1, 1), p) THEN Panic
    ELSE IF p = Rat(1, 2) THEN dist.Mu
    ELSE IF ~ValidNu(dist.Nu) THEN OutOfDomain
    ELSE FAdd(FMul(StdQuantile(dist.Nu, p), dist.Sigma), dist.Mu)

\* the upper tail of the standard distribution at y: 0 at +Inf, 1 at -Inf,
\* 1/2 at 0, NaN at NaN
StdSurvival(nu, y) ==
    CASE IsNaN(y) -> NaN
      [] y.k = "inf" -> IF y.s > 0 THEN Rat(0, 1) ELSE Rat(1, 1)
      [] FSign(y) = 0 -> Rat(1, 2)
      [] OTHER -> [k |-> "tail", nu |-> nu, y |-> y]

\* dist.Survival(x): the standard upper tail at y = (x - Mu)/Sigma
Survival(dist, x) ==
    IF ~ValidNu(dist.Nu) THEN OutOfDomain
    ELSE StdSurvival(dist.Nu, FDiv(FSub(x, dist.Mu), dist.Sigma))

\* ------------------------------------------------------------------------
\* The statistics engine
\* ------------------------------------------------------------------------

\* math.Pow(a, 2)
Pow2(a) == FMul(a, a)

\* t := (meanX - meanY) / math.Sqrt(varX/nx + varY/ny)
welchT(meanX, meanY, varX, varY, nx, ny) ==
    FDiv(FSub(meanX, meanY), FSqrt(FAdd(FDiv(varX, nx), FDiv(varY, ny))))

\* the Welch-Satterthwaite degrees of freedom
welchDf(varX, varY, nx, ny) ==
    FDiv(Pow2(FAdd(FDiv(varX, nx), FDiv(varY, ny))),
         FAdd(FDiv(Pow2(FDiv(varX, nx)), FSub(nx, Rat(1, 1))),
              FDiv(Pow2(FDiv(varY, ny)), FSub(ny, Rat(1, 1)))))

\* p := 2 * dist.Survival(math.Abs(t)), and the pair returned
welchReturn(t, sf) ==
    IF sf = Panic THEN Panic ELSE [k |-> "tp", t |-> t, p |-> FMul(Rat(2, 1), sf)]

\* the two-sided test on t under the distribution of df degrees of freedom
welchP(t, df) == welchReturn(t, Survival(StudentsT(df), FAbs(t)))

welchTTest(x, y) ==
    IF Len(x) < 2 \/ Len(y) < 2
    THEN [k |-> "tp", t |-> Rat(0, 1), p |-> Rat(1, 1)]
    ELSE welchP(welchT(Mean(x), Mean(y), Variance(x), Variance(y),
                       FromInt(Len(x)), FromInt(Len(y))),
                welchDf(Variance(x), Variance(y), FromInt(Len(x)), FromInt(Len(y))))

\* the degrees of freedom confidenceInterval builds its distribution with
QuantileNu(values) == Len(values) - 1

\* margin := tValue * stdErr, and the pair mean - margin, mean + margin
intervalReturn(mean, stdErr, tValue) ==
    IF tValue = Panic THEN Panic
    ELSE [k |-> "ci", lo |-> FSub(mean, FMul(tValue, stdErr)),
                      hi |-> FAdd(mean, FMul(tValue, stdErr))]

confidenceInterval(values, confidenceLevel) ==
    intervalReturn(Mean(values),
                   FDiv(StdDev(values), FSqrt(FromInt(Len(values)))),
                   Quantile(StudentsT(FromInt(QuantileNu(values))),
                            FDiv(FAdd(Rat(1, 1), confidenceLevel), Rat(2, 1))))

RECURSIVE measurementsToValues(_)
measurementsToValues(measurements) ==
    IF measurements = <<>> THEN <<>>
    ELSE <<Head(measurements).Value>> \o measurementsToValues(Tail(measurements))

\* AnalysisResult{Mean, Count, StdDev, ConfidenceInterval}
AnalysisResult(values, ci) ==
    [Mean |-> Mean(values), Count |-> Len(values), StdDev |-> StdDev(values),
     ConfidenceInterval |-> ci]

\* the TimeSegmentAnalysis analyzeSegment returns, or the panic of the first of
\* its three calls that panics
TimeSegmentAnalysis(benchValues, expValues, wt, benchCI, expCI, confidenceLevel) ==
    IF wt = Panic \/ benchCI = Panic \/ expCI = Panic THEN Panic
    ELSE [k |-> "seg",
          Benchmark |-> AnalysisResult(benchValues, benchCI),
          Experiment |-> AnalysisResult(expValues, expCI),
          Difference |-> FMul(FDiv(FSub(Mean(expValues), Mean(benchValues)),
                                   Mean(benchValues)), Rat(100, 1)),
          PValue |-> wt.p,
          Significant |-> FLt(wt.p, FSub(Rat(1, 1), confidenceLevel))]

analyzeValues(benchValues, expValues, confidenceLevel) ==
    TimeSegmentAnalysis(benchValues, expValues,
                        welchTTest(benchValues, expValues),
                     confidenceInterval(benchValues, confidenceLevel),
                     confidenceInterval(expValues, confidenceLevel),
                     confidenceLevel)

analyzeSegment(bench, exper, confidenceLevel) ==
    analyzeValues(measurementsToValues(bench), measurementsToValues(exper), confidenceLevel)

\* the degrees of freedom dist.Quantile is evaluated with in a call of
\* analyzeSegment whose parts return wt and benchCI: the benchmark's and then,
\* unless that call panicked, the experiment's
QuantileCalls(benchValues, expValues, wt, benchCI) ==
    IF wt = Panic THEN {}
    ELSE IF benchCI = Panic THEN {QuantileNu(benchValues)}
    ELSE {QuantileNu(benchValues), QuantileNu(expValues)}

SegmentQuantileCalls(bench, exper, confidenceLevel) ==
    QuantileCalls(measurementsToValues(bench), measurementsToValues(exper),
                  welchTTest(measurementsToValues(bench), measurementsToValues(exper)),
                  confidenceInterval(measurementsToValues(bench), confidenceLevel))

\* ------------------------------------------------------------------------
\* The series partitioner
\* ------------------------------------------------------------------------

\* time.Time{}: 0001-01-01 00:00:00 UTC, in minutes since the Unix epoch
ZeroTime == -1035593280

\* m.Date.Hour()
Hour(date) == (date \div 60) % 24

\* int(m.Date.Weekday()), 0 = Sunday; the Unix epoch fell on a Thursday
Weekday(date) == ((date \div 1440) + 4) % 7

\* strings.ToLower on the labels of the model
ToLower(str) == IF str = "A" THEN "a" ELSE str

\* filterLoop with the labels compared without regard to case
RECURSIVE filterLoopFoldCase(_, _, _)
filterLoopFoldCase(rest, lbl, acc) ==
    IF rest = <<>> THEN acc
    ELSE LET m == Head(rest)
         IN  IF ToLower(m.Label) = ToLower(lbl)
             THEN filterLoopFoldCase(Tail(rest), lbl,
                      [acc EXCEPT !.Measurements = Append(@, m),
                                  !.MinDate = IF m.Date < @ THEN m.Date ELSE @,
                                  !.MaxDate = IF m.Date > @ THEN m.Date ELSE @])
             ELSE filterLoopFoldCase(Tail(rest), lbl, acc)

\* the loop of filterByLabel over the records still to read
RECURSIVE filterLoop(_, _, _)
filterLoop(rest, lbl, acc) ==
    IF rest = <<>> THEN acc
    ELSE LET m == Head(rest)
         IN  IF m.Label = lbl
             THEN filterLoop(Tail(rest), lbl,
                      [acc EXCEPT !.Measurements = Append(@, m),
                                  !.MinDate = IF m.Date < @ THEN m.Date ELSE @,
                                  !.MaxDate = IF m.Date > @ THEN m.Date ELSE @])
             ELSE filterLoop(Tail(rest), lbl, acc)

filterByLabel(records, lbl) ==
    filterLoop(records, lbl,
               [Label |-> lbl, Measurements |-> <<>>, MinDate |-> now, MaxDate |-> ZeroTime])

RECURSIVE getUniqueLabels(_)
getUniqueLabels(records) ==
    IF records = <<>> THEN {} ELSE {Head(records).Label} \cup getUniqueLabels(Tail(records))

\* the map groupByHour returns: a bucket for every hour that occurs, the
\* measurements of each in their input order
groupByHour(measurements) ==
    [hour \in {Hour(measurements[i].Date) : i \in DOMAIN measurements} |->
        SelectSeq(measurements, LAMBDA m : Hour(m.Date) = hour)]

groupByDayOfWeek(measurements) ==
    [day \in {Weekday(measurements[i].Date) : i \in DOMAIN measurements} |->
        SelectSeq(measurements, LAMBDA m : Weekday(m.Date) = day)]

\* ------------------------------------------------------------------------
\* The segment analyzer
\* ------------------------------------------------------------------------

Digit(i) ==
    CASE i = 0 -> "0" [] i = 1 -> "1" [] i = 2 -> "2" [] i = 3 -> "3" [] i = 4 -> "4"
      [] i = 5 -> "5" [] i = 6 -> "6" [] i = 7 -> "7" [] i = 8 -> "8" [] OTHER -> "9"

\* fmt.Sprintf("hour_%02d", hour)
HourKey(hour) == "hour_" \o Digit(hour \div 10) \o Digit(hour % 10)

\* fmt.Sprintf("day_%d", day)
DayKey(day) == "day_" \o Digit(day)

\* the numbers of a set in ascending order, as a for loop over them meets them
Ascending(S) ==
    [i \in 1..Cardinality(S) |-> CHOOSE x \in S : Cardinality({y \in S : y < x}) = i - 1]

\* hourLoop with the experiment's side of the presence test left out
hourLoopBenchOnly(hourlyBench, hourlyExp) ==
    LET hours == Ascending({hour \in 0..23 : hour \in DOMAIN hourlyBench})
    IN  [i \in DOMAIN hours |->
            [key |-> HourKey(hours[i]), b |-> hourlyBench[hours[i]],
             e |-> IF hours[i] \in DOMAIN hourlyExp THEN hourlyExp[hours[i]] ELSE <<>>]]

\* the loop over the hours 0..23 of analyzeTimeSeries: the segments it has
\* analyzed and stored, in the order of the loop
hourLoop(hourlyBench, hourlyExp) ==
    LET hours == Ascending({hour \in 0..23 :
                               hour \in DOMAIN hourlyBench /\ hour \in DOMAIN hourlyExp})
    IN  [i \in DOMAIN hours |->
            [key |-> HourKey(hours[i]), b |-> hourlyBench[hours[i]], e |-> hourlyExp[hours[i]]]]

\* the loop over the weekdays 0..6 of analyzeTimeSeries
dayLoop(dailyBench, dailyExp) ==
    LET days == Ascending({day \in 0..6 :
                              day \in DOMAIN dailyBench /\ day \in DOMAIN dailyExp})
    IN  [i \in DOMAIN days |->
            [key |-> DayKey(days[i]), b |-> dailyBench[days[i]], e |-> dailyExp[days[i]]]]

\* the segments analyzeTimeSeries hands to analyzeSegment, in order: the
\* overall one, those of the hours, those of the weekdays
segmentsOf(bench, exper) ==
    <<[key |-> "overall", b |-> bench.Measurements, e |-> exper.Measurements]>>
    \o hourLoop(groupByHour(bench.Measurements), groupByHour(exper.Measurements))
    \o dayLoop(groupByDayOfWeek(bench.Measurements), groupByDayOfWeek(exper.Measurements))

\* the segments whose analyzeSegment call panics
panicking(segments, confidenceLevel) ==
    {i \in DOMAIN segments :
        analyzeSegment(segments[i].b, segments[i].e, confidenceLevel) = Panic}

\* the map analyzeTimeSeries returns, or the panic of the first segment whose
\* analysis panics
\* the segment stored under a key
segmentAt(segments, key) == segments[CHOOSE j \in DOMAIN segments : segments[j].key = key]

\* results[key] = analyzeSegment(...) for every segment, unless one panics
resultsOf(segments, confidenceLevel) ==
    IF panicking(segments, confidenceLevel) # {} THEN Panic
    ELSE [k |-> "results",
          results |-> [key \in {segments[i].key : i \in DOMAIN segments} |->
              analyzeSegment(segmentAt(segments, key).b, segmentAt(segments, key).e,
                             confidenceLevel)]]

\* the map analyzeTimeSeries returns, or the panic of the first segment whose
\* analysis panics
analyzeTimeSeries(bench, exper, confidenceLevel) ==
    resultsOf(segmentsOf(bench, exper), confidenceLevel)

\* the degrees of freedom dist.Quantile is evaluated with over the segments up
\* to the first of those in bad
quantileCallsUpTo(segments, bad, confidenceLevel) ==
    UNION {SegmentQuantileCalls(segments[i].b, segments[i].e, confidenceLevel) :
              i \in {j \in DOMAIN segments : \A x \in bad : j <= x}}

\* the degrees of freedom analyzeTimeSeries has dist.Quantile evaluated with,
\* up to the first segment whose analysis panics
SeriesQuantileCalls(bench, exper, confidenceLevel) ==
    quantileCallsUpTo(segmentsOf(bench, exper),
                      panicking(segmentsOf(bench, exper), confidenceLevel),
                      confidenceLevel)

\* ------------------------------------------------------------------------
\* The report renderer
\* ------------------------------------------------------------------------

\* opts.Threshold, by default 3.0
Threshold == Rat(3, 1)

\* fmt's %d of a number >= 0
RECURSIVE Itoa(_)
Itoa(i) == IF i < 10 THEN Digit(i) ELSE Itoa(i \div 10) \o Digit(i % 10)

\* the last width decimal digits of i, with leading zeros
RECURSIVE ZeroPadded(_, _)
ZeroPadded(i, width) ==
    IF width = 0 THEN "" ELSE ZeroPadded(i \div 10, width - 1) \o Digit(i % 10)

RECURSIVE Pow10(_)
Pow10(prec) == IF prec = 0 THEN 1 ELSE 10 * Pow10(prec - 1)

\* n/d for n >= 0 and d > 0, rounded to the nearest integer, a tie to the even one
RoundHalfEven(n, d) ==
    IF 2 * (n % d) > d \/ (2 * (n % d) = d /\ (n \div d) % 2 = 1)
    THEN (n \div d) + 1
    ELSE n \div d

\* the digits of a number given in units of 10^-prec
FixedDigits(scaled, prec) ==
    Itoa(scaled \div Pow10(prec)) \o "." \o ZeroPadded(scaled % Pow10(prec), prec)

\* fmt's %.<prec>f of a float64: NaN, +Inf and -Inf by name, a finite value
\* rounded to prec decimals.  The values the program prints are rational.
FormatFixed(a, prec) ==
    CASE IsNaN(a) -> "NaN"
      [] a.k = "inf" -> IF a.s > 0 THEN "+Inf" ELSE "-Inf"
      [] a.k = "rat" ->
            (IF a.n < 0 THEN "-" ELSE "")
                \o FixedDigits(RoundHalfEven(Abs(a.n) * Pow10(prec), a.d), prec)
      [] OTHER -> "irrational"

\* the closure formatDifference of printResults; green.Sprintf and red.Sprintf
\* put the text between the colour's escape sequence and the reset
formatDifference(diff, threshold, useColor) ==
    IF ~useColor THEN FormatFixed(diff, 2) \o "%"
    ELSE IF FLe(FAbs(diff), threshold) THEN FormatFixed(diff, 2) \o "%"
    ELSE IF FLt(diff, Rat(0, 1)) THEN "ESC[32m" \o FormatFixed(diff, 2) \o "%" \o "ESC[0m"
    ELSE "ESC[31m" \o FormatFixed(diff, 2) \o "%" \o "ESC[0m"

\* strings.Repeat("-", 50)
Rule == "--------------------------------------------------"

\* days[day] of printResults
DayName(day) ==
    CASE day = 0 -> "Sunday" [] day = 1 -> "Monday" [] day = 2 -> "Tuesday"
      [] day = 3 -> "Wednesday" [] day = 4 -> "Thursday" [] day = 5 -> "Friday"
      [] OTHER -> "Saturday"

\* A written line is the sequence of the pieces fmt puts together: the
\* literal parts of the format and the formatted arguments.

\* the lines on results["overall"]
overallLines(overall, threshold, useColor) ==
    << <<"">>, <<"Overall Analysis Results:">>, <<Rule>>,
       <<"Benchmark mean: ", FormatFixed(overall.Benchmark.Mean, 4),
         " (n=", Itoa(overall.Benchmark.Count), ")">>,
       <<"Experiment mean: ", FormatFixed(overall.Experiment.Mean, 4),
         " (n=", Itoa(overall.Experiment.Count), ")">>,
       <<"Difference: ", formatDifference(overall.Difference, threshold, useColor)>>,
       <<"P-value: ", FormatFixed(overall.PValue, 4)>> >>

\* the hours, of those given, whose key the map holds, as the loop meets them
presentHours(results, hours) == Ascending({hour \in hours : HourKey(hour) \in DOMAIN results})

presentDays(results, days) == Ascending({day \in days : DayKey(day) \in DOMAIN results})

\* the lines of the loop over the hours, one for each of hours
hourLines(results, hours, threshold, useColor) ==
    [i \in DOMAIN hours |->
        <<"Hour ", ZeroPadded(hours[i], 2), ": ",
          formatDifference(results[HourKey(hours[i])].Difference, threshold, useColor)>>]

\* the lines of the loop over the weekdays, one for each of days
dayLines(results, days, threshold, useColor) ==
    [i \in DOMAIN days |->
        <<DayName(days[i]), ": ",
          formatDifference(results[DayKey(days[i])].Difference, threshold, useColor)>>]

\* the hourly breakdown with its lines in descending order of the hour
hourlyBreakdownDescending(results, threshold, useColor) ==
    << <<"">>, <<"Hourly Breakdown:">>, <<Rule>> >>
        \o hourLines(results,
                     [i \in DOMAIN presentHours(results, 0..23) |->
                         presentHours(results, 0..23)[
                             Len(presentHours(results, 0..23)) + 1 - i]],
                     threshold, useColor)

\* if showHourly { ... }
hourlyBreakdown(results, threshold, useColor) ==
    << <<"">>, <<"Hourly Breakdown:">>, <<Rule>> >>
        \o hourLines(results, presentHours(results, 0..23), threshold, useColor)

\* if showDaily { ... }
dailyBreakdown(results, threshold, useColor) ==
    << <<"">>, <<"Day of Week Breakdown:">>, <<Rule>> >>
        \o dayLines(results, presentDays(results, 0..6), threshold, useColor)

\* the lines printResults writes
printResults(results, showHourly, showDaily, threshold, useColor) ==
    overallLines(results["overall"], threshold, useColor)
        \o (IF showHourly THEN hourlyBreakdown(results, threshold, useColor) ELSE <<>>)
        \o (IF showDaily THEN dailyBreakdown(results, threshold, useColor) ELSE <<>>)

\* ------------------------------------------------------------------------
\* main: the selection of the two labels, the analysis, the report
\* ------------------------------------------------------------------------

\* the slices getUniqueLabels can return: it appends the keys of a map in the
\* order of Go's map iteration, which is not specified
labelOrders(records) ==
    {order \in [1..Cardinality(getUniqueLabels(records)) -> getUniqueLabels(records)] :
        \A i, j \in DOMAIN order : i # j => order[i] # order[j]}

containsLabel(lbls, target) == \E i \in DOMAIN lbls : lbls[i] = target

\* strings.Join(labels, ", ")
RECURSIVE Join(_, _)
Join(lbls, sep) ==
    IF lbls = <<>> THEN ""
    ELSE IF Len(lbls) = 1 THEN Head(lbls)
    ELSE Head(lbls) \o sep \o Join(Tail(lbls), sep)

\* ambiguous with the test on the number of labels turned into "fewer than 2"
ambiguousFewer(lbls, o) == Len(lbls) < 2 /\ (o.Baseline = "" \/ o.Experiment = "")

\* len(labels) != 2 && (opts.Baseline == "" || opts.Experiment == "")
ambiguous(lbls, o) == Len(lbls) # 2 /\ (o.Baseline = "" \/ o.Experiment = "")

\* the first label of the slice that differs from the given one, "" if none does
firstOther(lbls, given) ==
    IF \E i \in DOMAIN lbls : lbls[i] # given
    THEN lbls[CHOOSE i \in DOMAIN lbls :
                  lbls[i] # given /\ \A j \in 1..(i - 1) : lbls[j] = given]
    ELSE ""

\* opts after the labels left out on the command line are filled in
autoSelect(lbls, o) ==
    IF o.Baseline = "" /\ o.Experiment = ""
    THEN [o EXCEPT !.Baseline = lbls[1], !.Experiment = lbls[2]]
    ELSE IF o.Baseline = "" THEN [o EXCEPT !.Baseline = firstOther(lbls, o.Experiment)]
    ELSE IF o.Experiment = "" THEN [o EXCEPT !.Experiment = firstOther(lbls, o.Baseline)]
    ELSE o

\* what the selection prints on its way from o to the options selected
autoSelectLines(o, selected) ==
    IF o.Baseline = "" /\ o.Experiment = ""
    THEN << <<"Auto-selected baseline: ", selected.Baseline,
              ", experiment: ", selected.Experiment>> >>
    ELSE IF o.Baseline = "" /\ selected.Baseline # ""
    THEN << <<"Auto-selected baseline: ", selected.Baseline>> >>
    ELSE IF o.Baseline # "" /\ o.Experiment = "" /\ selected.Experiment # ""
    THEN << <<"Auto-selected experiment: ", selected.Experiment>> >>
    ELSE <<>>

\* the message of the log.Fatalf on the number of labels
ambiguousMessage(lbls) ==
    <<"Found ", Itoa(Len(lbls)),
      " labels in data. When more than 2 labels exist, --baseline and --experiment must be specified.",
      "Available labels: ", Join(lbls, ", ")>>

\* the message of the log.Fatalf on a label that the data lacks
notFoundMessage(lbls) ==
    <<"Specified labels not found in data. Available labels: ", Join(lbls, ", ")>>

\* the largest time.Duration, in minutes
MaxDuration == 153722867

\* t.Sub(u), in minutes: the difference, kept within the range of a Duration
Sub(t, u) ==
    IF t - u > MaxDuration THEN MaxDuration
    ELSE IF t - u < -MaxDuration THEN -MaxDuration
    ELSE t - u

\* ------------------------------------------------------------------------
\* Specifications
\* ------------------------------------------------------------------------

\* no call made yet
NoValue == [k |-> "none"]

\* main has not run and nothing is written
NoRun ==
    /\ argv = NoValue
    /\ opts = NoValue
    /\ labels = <<>>
    /\ show = NoValue
    /\ stdout = <<>>
    /\ fatal = NoValue

RECURSIVE SeqsUpTo(_, _)
SeqsUpTo(S, n) ==
    IF n = 0 THEN {<<>>}
    ELSE LET shorter == SeqsUpTo(S, n - 1)
         IN  shorter \cup {Append(q, x) : q \in {r \in shorter : Len(r) = n - 1}, x \in S}

Measurements(dates, values, lbls) == [Date : dates, Value : values, Label : lbls]

\* analyzeSegment, welchTTest and confidenceInterval on every pair of samples
\* of up to MaxLen values
InitStats ==
    /\ pc = "start"
    /\ lib \in LibOutcomes
    /\ now \in {BaseDate + 60000}
    /\ conf \in {Rat(c, 100) : c \in Confidences}
    /\ data = <<>>
    /\ label = ""
    /\ benchmark \in {filterByLabel(ms, "a") :
                        ms \in SeqsUpTo(Measurements({BaseDate}, Values, {"a"}), MaxLen)}
    /\ experiment \in {filterByLabel(ms, "b") :
                         ms \in SeqsUpTo(Measurements({BaseDate}, Values, {"b"}), MaxLen)}
    /\ ret = NoValue
    /\ calls = {}
    /\ NoRun

CallWelchTTest ==
    /\ pc = "start"
    /\ pc' = "welchTTest"
    /\ ret' = welchTTest(measurementsToValues(benchmark.Measurements),
                         measurementsToValues(experiment.Measurements))
    /\ UNCHANGED <<lib, now, conf, data, label, benchmark, experiment, calls, mainVars>>

CallConfidenceInterval ==
    /\ pc = "start"
    /\ pc' = "confidenceInterval"
    /\ ret' = confidenceInterval(measurementsToValues(benchmark.Measurements), conf)
    /\ calls' = {QuantileNu(measurementsToValues(benchmark.Measurements))}
    /\ UNCHANGED <<lib, now, conf, data, label, benchmark, experiment, mainVars>>

CallAnalyzeSegment ==
    /\ pc = "start"
    /\ pc' = "analyzeSegment"
    /\ ret' = analyzeSegment(benchmark.Measurements, experiment.Measurements, conf)
    /\ calls' = SegmentQuantileCalls(benchmark.Measurements, experiment.Measurements, conf)
    /\ UNCHANGED <<lib, now, conf, data, label, benchmark, experiment, mainVars>>

NextStats == CallWelchTTest \/ CallConfidenceInterval \/ CallAnalyzeSegment

SpecStats == InitStats /\ [][NextStats]_vars

\* analyzeTimeSeries on every pair of series of up to MaxSeriesLen measurements
InitSeries ==
    /\ pc = "start"
    /\ lib \in LibOutcomes
    /\ now \in {BaseDate + 60000}
    /\ conf \in {Rat(95, 100)}
    /\ data = <<>>
    /\ label = ""
    /\ benchmark \in {filterByLabel(ms, "a") :
                        ms \in SeqsUpTo(Measurements(SeriesDates, SeriesValues, {"a"}), MaxSeriesLen)}
    /\ experiment \in {filterByLabel(ms, "b") :
                         ms \in SeqsUpTo(Measurements(SeriesDates, SeriesValues, {"b"}), MaxSeriesLen)}
    /\ ret = NoValue
    /\ calls = {}
    /\ NoRun

CallAnalyzeTimeSeries ==
    /\ pc = "start"
    /\ pc' = "analyzeTimeSeries"
    /\ ret' = analyzeTimeSeries(benchmark, experiment, conf)
    /\ calls' = SeriesQuantileCalls(benchmark, experiment, conf)
    /\ UNCHANGED <<lib, now, conf, data, label, benchmark, experiment, mainVars>>

NextSeries == CallAnalyzeTimeSeries

SpecSeries == InitSeries /\ [][NextSeries]_vars

\* printResults on the analysis of every pair of series of up to MaxSeriesLen
\* measurements, with every choice of its flags
InitReport ==
    /\ pc = "start"
    /\ lib \in LibOutcomes
    /\ now \in {BaseDate + 60000}
    /\ conf \in {Rat(95, 100)}
    /\ data = <<>>
    /\ label = ""
    /\ benchmark \in {filterByLabel(ms, "a") :
                        ms \in SeqsUpTo(Measurements(SeriesDates, ReportValues, {"a"}), MaxSeriesLen)}
    /\ experiment \in {filterByLabel(ms, "b") :
                         ms \in SeqsUpTo(Measurements(SeriesDates, ReportValues, {"b"}), MaxSeriesLen)}
    /\ ret = NoValue
    /\ calls = {}
    /\ NoRun

CallPrintResults ==
    /\ pc = "analyzeTimeSeries"
    /\ ret # Panic
    /\ pc' = "printResults"
    /\ \E showHourly \in BOOLEAN, showDaily \in BOOLEAN, useColor \in BOOLEAN :
           /\ show' = [Hourly |-> showHourly, Daily |-> showDaily, Color |-> useColor]
           /\ stdout' = printResults(ret.results, showHourly, showDaily, Threshold, useColor)
    /\ UNCHANGED <<lib, now, conf, data, label, benchmark, experiment, ret, calls,
                   argv, opts, labels, fatal>>

NextReport == CallAnalyzeTimeSeries \/ CallPrintResults

SpecReport == InitReport /\ [][NextReport]_vars

\* main on every table of up to MaxRecords records and every choice of
\* --baseline and --experiment; the options are parsed and the table is read
InitMain ==
    /\ pc = "main"
    /\ lib \in LibOutcomes
    /\ now \in MainNows
    /\ conf \in {Rat(95, 100)}
    /\ data \in SeqsUpTo(MainRecords, MaxRecords)
    /\ label = ""
    /\ benchmark = NoValue
    /\ experiment = NoValue
    /\ ret = NoValue
    /\ calls = {}
    /\ argv \in [Baseline : BaselineArgs, Experiment : ExperimentArgs, NoColor : {FALSE}]
    /\ opts = argv
    /\ labels = <<>>
    /\ show = NoValue
    /\ stdout = <<>>
    /\ fatal = NoValue

\* labels := getUniqueLabels(data)
GetUniqueLabels ==
    /\ pc = "main"
    /\ pc' = "labels"
    /\ labels' \in labelOrders(data)
    /\ UNCHANGED <<lib, now, conf, data, label, benchmark, experiment, ret, calls,
                   argv, opts, show, stdout, fatal>>

\* the checks and the automatic selection of the two labels
SelectLabels ==
    /\ pc = "labels"
    /\ IF ambiguous(labels, opts)
       THEN /\ pc' = "exit"
            /\ fatal' = ambiguousMessage(labels)
            /\ UNCHANGED <<opts, stdout>>
       ELSE /\ opts' = autoSelect(labels, opts)
            /\ stdout' = stdout \o autoSelectLines(opts, opts')
            /\ IF ~containsLabel(labels, opts'.Baseline) \/ ~containsLabel(labels, opts'.Experiment)
               THEN pc' = "exit" /\ fatal' = notFoundMessage(labels)
               ELSE pc' = "filter" /\ UNCHANGED fatal
    /\ UNCHANGED <<lib, now, conf, data, label, benchmark, experiment, ret, calls,
                   argv, labels, show>>

\* baseline and experiment := filterByLabel(data, ...), and the check that
\* neither is empty
FilterSeries ==
    /\ pc = "filter"
    /\ benchmark' = filterByLabel(data, opts.Baseline)
    /\ experiment' = filterByLabel(data, opts.Experiment)
    /\ IF Len(benchmark'.Measurements) = 0 \/ Len(experiment'.Measurements) = 0
       THEN pc' = "exit" /\ fatal' = <<"No data found for one or both labels">>
       ELSE pc' = "analyze" /\ UNCHANGED fatal
    /\ UNCHANGED <<lib, now, conf, data, label, ret, calls, argv, opts, labels, show, stdout>>

\* analysis := analyzeTimeSeries(baseline, experiment, opts.Confidence)
Analyze ==
    /\ pc = "analyze"
    /\ ret' = analyzeTimeSeries(benchmark, experiment, conf)
    /\ calls' = SeriesQuantileCalls(benchmark, experiment, conf)
    /\ pc' = IF ret' = Panic THEN "panic" ELSE "render"
    /\ UNCHANGED <<lib, now, conf, data, label, benchmark, experiment, mainVars>>

\* timeRange, showHourly, showDaily, useColor and printResults
Render ==
    /\ pc = "render"
    /\ pc' = "done"
    /\ \E isTerminal \in BOOLEAN :
           show' = [Hourly |-> Sub(benchmark.MaxDate, benchmark.MinDate) >= 24 * 60,
                    Daily |-> Sub(benchmark.MaxDate, benchmark.MinDate) >= 7 * 24 * 60,
                    Color |-> ~opts.NoColor /\ isTerminal]
    /\ stdout' = stdout \o printResults(ret.results, show'.Hourly, show'.Daily,
                                        Threshold, show'.Color)
    /\ UNCHANGED <<lib, now, conf, data, label, benchmark, experiment, ret, calls,
                   argv, opts, labels, fatal>>

NextMain == GetUniqueLabels \/ SelectLabels \/ FilterSeries \/ Analyze \/ Render

SpecMain == InitMain /\ [][NextMain]_vars

\* filterByLabel on every table of up to MaxRecords records
InitFilter ==
    /\ pc = "start"
    /\ lib \in {"panic"}
    /\ now \in Nows
    /\ conf \in {Rat(95, 100)}
    /\ data \in SeqsUpTo(Measurements(Dates, {10}, Labels), MaxRecords)
    /\ label \in Labels
    /\ benchmark = NoValue
    /\ experiment = NoValue
    /\ ret = NoValue
    /\ calls = {}
    /\ NoRun

CallFilterByLabel ==
    /\ pc = "start"
    /\ pc' = "filterByLabel"
    /\ ret' = filterByLabel(data, label)
    /\ UNCHANGED <<lib, now, conf, data, label, benchmark, experiment, calls, mainVars>>

NextFilter == CallFilterByLabel

SpecFilter == InitFilter /\ [][NextFilter]_vars

\* ------------------------------------------------------------------------
\* Claims
\* ------------------------------------------------------------------------

BenchValues == measurementsToValues(benchmark.Measurements)

ExpValues == measurementsToValues(experiment.Measurements)

IsConstant(x) == \A i, j \in DOMAIN x : x[i] = x[j]

SmallSample == Len(BenchValues) < 2 \/ Len(ExpValues) < 2

\* the segment keys of the result map, as the specification spells them
HourKeys ==
    <<"hour_00", "hour_01", "hour_02", "hour_03", "hour_04", "hour_05", "hour_06",
      "hour_07", "hour_08", "hour_09", "hour_10", "hour_11", "hour_12", "hour_13",
      "hour_14", "hour_15", "hour_16", "hour_17", "hour_18", "hour_19", "hour_20",
      "hour_21", "hour_22", "hour_23">>

DayKeys == <<"day_0", "day_1", "day_2", "day_3", "day_4", "day_5", "day_6">>

\* the measurements of a series that fall in an hour of the day, a weekday
InHour(series, hour) == {i \in DOMAIN series.Measurements : Hour(series.Measurements[i].Date) = hour}

OnDay(series, day) == {i \in DOMAIN series.Measurements : Weekday(series.Measurements[i].Date) = day}

\* C1: the map analyzeTimeSeries returns holds no segment key, "overall"
\* included, for which a side has no observation: every entry has a benchmark
\* count and an experiment count of at least 1.
C1_NoSegmentWithEmptySide ==
    (pc = "analyzeTimeSeries" /\ ret.k = "results") =>
        \A key \in DOMAIN ret.results :
            /\ ret.results[key].Benchmark.Count >= 1
            /\ ret.results[key].Experiment.Count >= 1

\* C2: the keys of the map analyzeTimeSeries returns are among "overall",
\* "hour_00".."hour_23" and "day_0".."day_6"; "hour_hh" is a key exactly when
\* both series have a measurement in hour hh, "day_d" exactly when both have
\* one on weekday d (0 = Sunday), and the entry's counts are the numbers of
\* measurements of each side in that hour or on that weekday.
C2_SegmentKeys ==
    (pc = "analyzeTimeSeries" /\ ret.k = "results") =>
        /\ DOMAIN ret.results \subseteq
               {"overall"} \cup {HourKeys[i] : i \in 1..24} \cup {DayKeys[i] : i \in 1..7}
        /\ \A hour \in 0..23 :
               /\ HourKeys[hour + 1] \in DOMAIN ret.results <=>
                      (InHour(benchmark, hour) # {} /\ InHour(experiment, hour) # {})
               /\ HourKeys[hour + 1] \in DOMAIN ret.results =>
                      /\ ret.results[HourKeys[hour + 1]].Benchmark.Count =
                             Cardinality(InHour(benchmark, hour))
                      /\ ret.results[HourKeys[hour + 1]].Experiment.Count =
                             Cardinality(InHour(experiment, hour))
        /\ \A day \in 0..6 :
               /\ DayKeys[day + 1] \in DOMAIN ret.results <=>
                      (OnDay(benchmark, day) # {} /\ OnDay(experiment, day) # {})
               /\ DayKeys[day + 1] \in DOMAIN ret.results =>
                      /\ ret.results[DayKeys[day + 1]].Benchmark.Count =
                             Cardinality(OnDay(benchmark, day))
                      /\ ret.results[DayKeys[day + 1]].Experiment.Count =
                             Cardinality(OnDay(experiment, day))

\* a returned map with the segments of hour 0 and of Thursday and none of
\* hour 1 or of Friday, the benchmark having a measurement on Friday at 01:00
\* that the experiment lacks
C2_Witness ==
    /\ pc = "analyzeTimeSeries"
    /\ ret.k = "results"
    /\ DOMAIN ret.results = {"overall", "hour_00", "day_4"}
    /\ InHour(benchmark, 1) # {}
    /\ OnDay(benchmark, 5) # {}
    /\ ret.results["overall"].Benchmark.Count = 2
    /\ ret.results["hour_00"].Benchmark.Count = 1
    /\ ret.results["day_4"].Experiment.Count = 2

\* C3: when a sample has fewer than 2 observations, welchTTest returns exactly
\* t = 0 and p = 1, and analyzeSegment returns a result with PValue = 1 and
\* Significant = false.
C3_SmallSampleNoEvidence ==
    /\ (pc = "welchTTest" /\ SmallSample) =>
           ret = [k |-> "tp", t |-> Rat(0, 1), p |-> Rat(1, 1)]
    /\ (pc = "analyzeSegment" /\ SmallSample) =>
           /\ ret.k = "seg"
           /\ ret.PValue = Rat(1, 1)
           /\ ret.Significant = FALSE

\* C4: for two constant samples of at least 2 values with different means,
\* welchTTest yields a p-value below 0.001 and analyzeSegment reports
\* Significant = true at confidence 0.95; all 10 against all 11 gives a
\* Difference of 10.0.
C4_ZeroVarianceDifferentMeans ==
    (/\ Len(BenchValues) >= 2 /\ Len(ExpValues) >= 2
     /\ IsConstant(BenchValues) /\ IsConstant(ExpValues)
     /\ Mean(BenchValues) # Mean(ExpValues)) =>
        /\ pc = "welchTTest" => (ret.k = "tp" /\ FLt(ret.p, Rat(1, 1000)))
        /\ (pc = "analyzeSegment" /\ conf = Rat(95, 100)) =>
               /\ ret.k = "seg"
               /\ ret.Significant = TRUE
               /\ (BenchValues[1] = 10 /\ ExpValues[1] = 11) => ret.Difference = Rat(10, 1)

\* C5: for two constant samples of at least 2 values with equal means,
\* welchTTest returns t = 0 and p = 1, and no NaN reaches the significance
\* decision of analyzeSegment.
C5_ZeroVarianceEqualMeans ==
    (/\ Len(BenchValues) >= 2 /\ Len(ExpValues) >= 2
     /\ IsConstant(BenchValues) /\ IsConstant(ExpValues)
     /\ Mean(BenchValues) = Mean(ExpValues)) =>
        /\ pc = "welchTTest" => ret = [k |-> "tp", t |-> Rat(0, 1), p |-> Rat(1, 1)]
        /\ pc = "analyzeSegment" => (ret.k = "seg" /\ ~IsNaN(ret.PValue))

\* C6: for two identical samples of at least 2 values, welchTTest returns
\* t = 0 and p = 1, and analyzeSegment returns Difference = 0.0 and
\* Significant = false at confidence 0.95.
C6_IdenticalSamples ==
    (Len(BenchValues) >= 2 /\ BenchValues = ExpValues) =>
        /\ pc = "welchTTest" =>
               (ret.k = "tp" /\ ret.t = Rat(0, 1) /\ ret.p = Rat(1, 1))
        /\ (pc = "analyzeSegment" /\ conf = Rat(95, 100)) =>
               /\ ret.k = "seg"
               /\ ret.Difference = Rat(0, 1)
               /\ ret.Significant = FALSE

\* C7: for a sample of fewer than 2 values confidenceInterval returns an
\* interval that collapses to one point and never has the quantile function
\* evaluated with degrees of freedom n - 1 <= 0; analyzeSegment returns a
\* result, without panic, for a segment with 0 or 1 observations on a side.
C7_SmallSampleInterval ==
    /\ (pc = "confidenceInterval" /\ Len(BenchValues) < 2) =>
           /\ ret.k = "ci"
           /\ ret.lo = ret.hi
           /\ \A nu \in calls : nu > 0
    /\ (pc = "analyzeSegment" /\ SmallSample) =>
           /\ ret.k = "seg"
           /\ \A nu \in calls : nu > 0

\* the square of the margin the specification gives the interval:
\* t_critical(df = n - 1, p = (1 + confidenceLevel)/2) * std_dev/sqrt(n)
SpecMarginSq(values, confidenceLevel) ==
    LET tCritical == StdQuantile(FromInt(Len(values) - 1),
                                 FDiv(FAdd(Rat(1, 1), confidenceLevel), Rat(2, 1)))
    IN  FMul(Pow2(tCritical), FDiv(Variance(values), FromInt(Len(values))))

\* the square of the distance of an interval bound from the mean
MarginSq(bound, mean) ==
    IF bound.k = "mix" THEN bound.q ELSE Pow2(FSub(bound, mean))

\* C8: for a sample of at least 2 values confidenceInterval returns
\* (mean - margin, mean + margin) with margin = t_critical(df = n - 1,
\* p = (1 + confidenceLevel)/2) * std_dev/sqrt(n), so low <= mean <= high, and
\* the interval at a higher confidence level contains the one at a lower.
C8_ConfidenceInterval ==
    (pc = "confidenceInterval" /\ Len(BenchValues) >= 2) =>
        /\ ret.k = "ci"
        /\ FLe(ret.lo, Mean(BenchValues))
        /\ FLe(Mean(BenchValues), ret.hi)
        /\ MarginSq(ret.lo, Mean(BenchValues)) = SpecMarginSq(BenchValues, conf)
        /\ MarginSq(ret.hi, Mean(BenchValues)) = SpecMarginSq(BenchValues, conf)
        /\ \A c1, c2 \in Confidences :
               c1 < c2 =>
                   /\ FLe(confidenceInterval(BenchValues, Rat(c2, 100)).lo,
                          confidenceInterval(BenchValues, Rat(c1, 100)).lo)
                   /\ FLe(confidenceInterval(BenchValues, Rat(c1, 100)).hi,
                          confidenceInterval(BenchValues, Rat(c2, 100)).hi)

RECURSIVE SumOver(_, _)
SumOver(f, S) ==
    IF S = {} THEN 0
    ELSE LET x == CHOOSE y \in S : TRUE IN f[x] + SumOver(f, S \ {x})

\* C9: filterByLabel returns exactly the records whose label equals the
\* given one, in their input order, the empty series when none does; summed
\* over the distinct labels of the input, the sizes of the series it returns
\* equal the number of records.
C9_FilterByLabel ==
    pc = "filterByLabel" =>
        /\ ret.Label = label
        /\ ret.Measurements = SelectSeq(data, LAMBDA m : m.Label = label)
        /\ (\A i \in DOMAIN data : data[i].Label # label) => ret.Measurements = <<>>
        /\ SumOver([l \in getUniqueLabels(data) |->
                        Len(filterByLabel(data, l).Measurements)],
                   getUniqueLabels(data)) = Len(data)

\* a table with records of the labels "a", "A" and "b", filtered for "a"
C9_Witness ==
    /\ pc = "filterByLabel"
    /\ label = "a"
    /\ getUniqueLabels(data) = {"a", "A", "b"}
    /\ Len(ret.Measurements) = 1

TimestampsOf(series) == {series.Measurements[i].Date : i \in DOMAIN series.Measurements}

\* C10: a non-empty series filterByLabel returns has the smallest timestamp
\* of its measurements as MinDate and the largest as MaxDate, whatever the
\* time at which filterByLabel runs.
C10_InclusiveBounds ==
    (pc = "filterByLabel" /\ ret.Measurements # <<>>) =>
        /\ ret.MinDate \in TimestampsOf(ret)
        /\ ret.MaxDate \in TimestampsOf(ret)
        /\ \A d \in TimestampsOf(ret) : ret.MinDate <= d /\ d <= ret.MaxDate

\* the analysis printed or about to be printed
Analyzed == pc \in {"analyzeTimeSeries", "printResults"} /\ ret.k = "results"

\* the lines of the report that hold a piece
LinesWith(piece) == {i \in DOMAIN stdout : \E j \in DOMAIN stdout[i] : stdout[i][j] = piece}

\* C11: every segment has Difference = (Experiment.Mean - Benchmark.Mean) /
\* Benchmark.Mean * 100; when the benchmark mean is 0 the analysis still
\* returns a result, its Difference being +Inf, -Inf or NaN, and the report
\* prints that value by its name.
C11_DifferenceDefined ==
    /\ Analyzed =>
           \A key \in DOMAIN ret.results :
               ret.results[key].Difference =
                   FMul(FDiv(FSub(ret.results[key].Experiment.Mean,
                                  ret.results[key].Benchmark.Mean),
                             ret.results[key].Benchmark.Mean), Rat(100, 1))
    /\ (pc = "analyzeTimeSeries" /\ Mean(BenchValues) = Rat(0, 1)) =>
           /\ ret.k = "results"
           /\ \A key \in DOMAIN ret.results :
                  ret.results[key].Benchmark.Mean = Rat(0, 1) =>
                      ret.results[key].Difference.k \in {"inf", "nan"}
    /\ (pc = "printResults" /\ ret.results["overall"].Benchmark.Mean = Rat(0, 1)) =>
           \E i \in LinesWith("Difference: ") :
               stdout[i][2] \in {"NaN%", "+Inf%", "-Inf%", "ESC[31mNaN%ESC[0m",
                                 "ESC[31m+Inf%ESC[0m", "ESC[32m-Inf%ESC[0m"}

\* the two-digit hours and the weekday names, as the report spells them
HourTexts ==
    <<"00", "01", "02", "03", "04", "05", "06", "07", "08", "09", "10", "11",
      "12", "13", "14", "15", "16", "17", "18", "19", "20", "21", "22", "23">>

DayNames == <<"Sunday", "Monday", "Tuesday", "Wednesday", "Thursday", "Friday", "Saturday">>

\* the lines of the report on an hour, on a weekday
HourLineOf(hour) == {i \in LinesWith("Hour ") : stdout[i][2] = HourTexts[hour + 1]}

DayLineOf(day) == LinesWith(DayNames[day + 1])

\* C12: every TimeSegmentAnalysis has Significant = (PValue < 1 -
\* confidenceLevel); the report states whether the overall result is
\* significant, and marks a per-hour or per-weekday line as significant
\* exactly when PValue < 1 - confidenceLevel holds of its segment.
C12_SignificanceShown ==
    /\ Analyzed =>
           \A key \in DOMAIN ret.results :
               ret.results[key].Significant =
                   FLt(ret.results[key].PValue, FSub(Rat(1, 1), conf))
    /\ pc = "printResults" =>
           /\ LinesWith(IF FLt(ret.results["overall"].PValue, FSub(Rat(1, 1), conf))
                        THEN "Result is STATISTICALLY SIGNIFICANT"
                        ELSE "Result is NOT statistically significant") # {}
           /\ \A hour \in 0..23 : \A i \in HourLineOf(hour) :
                  i \in LinesWith(" (SIGNIFICANT)") <=>
                      FLt(ret.results[HourKeys[hour + 1]].PValue, FSub(Rat(1, 1), conf))
           /\ \A day \in 0..6 : \A i \in DayLineOf(day) :
                  i \in LinesWith(" (SIGNIFICANT)") <=>
                      FLt(ret.results[DayKeys[day + 1]].PValue, FSub(Rat(1, 1), conf))

\* a is b with some of its elements left out, the order kept
RECURSIVE IsSubsequence(_, _)
IsSubsequence(a, b) ==
    IF a = <<>> THEN TRUE
    ELSE IF b = <<>> THEN FALSE
    ELSE IF Head(a) = Head(b) THEN IsSubsequence(Tail(a), Tail(b))
    ELSE IsSubsequence(a, Tail(b))

\* the buckets of groupByHour and groupByDayOfWeek hold the measurements of
\* their hour or weekday, all of them, in the order of the input
BucketsKeepOrder(series) ==
    /\ \A hour \in DOMAIN groupByHour(series.Measurements) :
           /\ IsSubsequence(groupByHour(series.Measurements)[hour], series.Measurements)
           /\ Len(groupByHour(series.Measurements)[hour]) = Cardinality(InHour(series, hour))
           /\ \A i \in DOMAIN groupByHour(series.Measurements)[hour] :
                  Hour(groupByHour(series.Measurements)[hour][i].Date) = hour
    /\ \A day \in DOMAIN groupByDayOfWeek(series.Measurements) :
           /\ IsSubsequence(groupByDayOfWeek(series.Measurements)[day], series.Measurements)
           /\ Len(groupByDayOfWeek(series.Measurements)[day]) = Cardinality(OnDay(series, day))
           /\ \A i \in DOMAIN groupByDayOfWeek(series.Measurements)[day] :
                  Weekday(groupByDayOfWeek(series.Measurements)[day][i].Date) = day

\* the per-hour lines come in strictly ascending order of the hour, the
\* per-weekday lines after them in strictly ascending order of the weekday,
\* and no hour or weekday has more than one line
LinesAscending ==
    /\ \A h1, h2 \in 0..23 : \A i \in HourLineOf(h1), j \in HourLineOf(h2) :
           (h1 < h2 => i < j) /\ (h1 = h2 => i = j)
    /\ \A d1, d2 \in 0..6 : \A i \in DayLineOf(d1), j \in DayLineOf(d2) :
           (d1 < d2 => i < j) /\ (d1 = d2 => i = j)
    /\ \A hour \in 0..23, day \in 0..6 : \A i \in HourLineOf(hour), j \in DayLineOf(day) : i < j

\* C15 as stated: the buckets of group_by_hour and group_by_day_of_week keep
\* the input order; the report has its per-hour lines in strictly ascending
\* hour order, then its per-weekday lines in strictly ascending weekday order,
\* one line for each segment key of the result map and none for an absent key.
C15_OneLinePerKey ==
    /\ Analyzed => (BucketsKeepOrder(benchmark) /\ BucketsKeepOrder(experiment))
    /\ pc = "printResults" =>
           /\ LinesAscending
           /\ \A hour \in 0..23 :
                  HourLineOf(hour) # {} <=> HourKeys[hour + 1] \in DOMAIN ret.results
           /\ \A day \in 0..6 :
                  DayLineOf(day) # {} <=> DayKeys[day + 1] \in DOMAIN ret.results

\* C15, amended: the buckets keep the input order; the report has its per-hour
\* lines in strictly ascending hour order, then its per-weekday lines in
\* strictly ascending weekday order; when showHourly is set there is one
\* per-hour line for each hour key of the result map and none for an absent
\* key, when it is not set there is no per-hour line, and likewise for
\* showDaily and the per-weekday lines.
C15_OneLinePerShownKey ==
    /\ Analyzed => (BucketsKeepOrder(benchmark) /\ BucketsKeepOrder(experiment))
    /\ pc = "printResults" =>
           /\ LinesAscending
           /\ \A hour \in 0..23 :
                  HourLineOf(hour) # {} <=>
                      (show.Hourly /\ HourKeys[hour + 1] \in DOMAIN ret.results)
           /\ \A day \in 0..6 :
                  DayLineOf(day) # {} <=>
                      (show.Daily /\ DayKeys[day + 1] \in DOMAIN ret.results)

\* a report with the lines of the hours 0 and 1 and of Thursday and Friday, in
\* this order, on series whose first measurement is Friday's at 01:00
C15_Witness ==
    /\ pc = "printResults"
    /\ show.Hourly /\ show.Daily
    /\ Len(benchmark.Measurements) = 2 /\ Hour(benchmark.Measurements[1].Date) = 1
    /\ Len(experiment.Measurements) = 2 /\ Weekday(experiment.Measurements[1].Date) = 5
    /\ \E i \in HourLineOf(0), j \in HourLineOf(1), m \in DayLineOf(4), n \in DayLineOf(5) :
           i < j /\ j < m /\ m < n

\* latest minus earliest timestamp of the measurements of a series, in minutes
RealSpan(series) ==
    (CHOOSE d \in TimestampsOf(series) : \A e \in TimestampsOf(series) : e <= d)
        - (CHOOSE d \in TimestampsOf(series) : \A e \in TimestampsOf(series) : d <= e)

\* C13: in a run that reaches the report, showHourly is set exactly when the
\* latest and the earliest timestamp of the baseline series are at least 24
\* hours apart, and showDaily exactly when they are at least 7 * 24 hours
\* apart.
C13_ShowFlags ==
    pc = "done" =>
        /\ show.Hourly <=> RealSpan(benchmark) >= 24 * 60
        /\ show.Daily <=> RealSpan(benchmark) >= 7 * 24 * 60
        /\ show.Daily => show.Hourly

\* the table and the command line make a selection error: more than two
\* distinct labels without both --baseline and --experiment, or a label given
\* on the command line that the table lacks
SelectionError ==
    \/ /\ Cardinality(getUniqueLabels(data)) > 2
       /\ argv.Baseline = "" \/ argv.Experiment = ""
    \/ argv.Baseline # "" /\ argv.Baseline \notin getUniqueLabels(data)
    \/ argv.Experiment # "" /\ argv.Experiment \notin getUniqueLabels(data)

\* the message of log.Fatalf names every label of the table
ListsLabels(message) ==
    \E order \in labelOrders(data) : \E i \in DOMAIN message : message[i] = Join(order, ", ")

C16_SelectionDeterministic ==
    pc \in {"filter", "analyze", "render", "panic", "done"} =>
        \A order \in labelOrders(data) :
            /\ ~ambiguous(order, argv)
            /\ autoSelect(order, argv).Baseline = opts.Baseline
            /\ autoSelect(order, argv).Experiment = opts.Experiment

====
